---- MODULE Spec2Model ----
(***************************************************************************)
(* Model of fbpcs/private_computation/service/mpc/mpc.py:                  *)
(*   MPCService.__init__, MPCService.convert_cmd_args_list and             *)
(*   map_private_computation_role_to_mpc_party.                            *)
(*                                                                         *)
(* Python lists are 0-based, TLA+ sequences 1-based: the loop variable i   *)
(* keeps its Python value and element i of a list is list[i + 1].          *)
(* An Optional[List] is a record [isNone, list]; a None scalar is the      *)
(* string None.                                                            *)
(***************************************************************************)
EXTENDS Integers, Sequences, FiniteSets, TLC

\* ------------------------------------------------------------------ bounds
\* Longest game_args / server_ips list the caller passes.
MaxLen == 3

\* ------------------------------------------------------------ value domains
None == "None"

\* MPCParty members (fbpcs.private_computation.service.mpc.entity.mpc_instance)
SERVER == "SERVER"
CLIENT == "CLIENT"
MPCParty == {SERVER, CLIENT}

\* PrivateComputationRole members, and values that are not one of the two
PUBLISHER == "PUBLISHER"
PARTNER == "PARTNER"
RoleInputs == {PUBLISHER, PARTNER, "UNKNOWN", None}

GameNames == {"lift", "attribution"}
GameArgMaps == {"argsA", "argsB"}
Ips == {"10.0.0.1", "10.0.0.2"}
Packages == {"pkgX", "pkgY"}
ResolverErrors == {"SchemaError: unknown argument", "SchemaError: missing required field"}

ContainerSvcInputs == {None, "container_svc"}
TaskDefinitionInputs == {None, "task_definition"}
MpcGameSvcInputs == {None, "mpc_game_svc"}

\* Error values raised by the code
DependencyMissingError == "ValueError: Dependency is missing."
MissingGameArgsError == "ValueError: Missing game_args or it's empty"
MissingServerIpsError == "ValueError: Missing server_ips"
NoBinaryNameError == "ValueError: Can't get binary_name from game_args"
IndexError == "IndexError: list index out of range"
NoMpcPartyError == "ValueError: No mpc party defined"

\* Optional[List[...]] values
NoneList == [isNone |-> TRUE, list |-> <<>>]
SomeList(s) == [isNone |-> FALSE, list |-> s]

SeqsUpTo(S, n) == UNION {[1..k -> S] : k \in 0..n}
OptLists(S) == {NoneList} \cup {SomeList(s) : s \in SeqsUpTo(S, MaxLen)}

\* Python truthiness of an Optional[List]: None and [] are falsy
Falsy(l) == l.isNone \/ Len(l.list) = 0

VARIABLES
    init_pc,        \* "new" | "ok" | "raised": position of MPCService.__init__
    init_args,      \* <<container_svc, task_definition, mpc_game_svc>> passed to __init__
    init_err,       \* error raised by __init__, or None
    self,           \* the attributes of the constructed MPCService
    map_pc,         \* "idle" | "returned" | "raised": last call of the role mapper
    map_role,       \* its argument
    map_ret,        \* its return value, or None
    map_err,        \* the error it raised, or None
    pc,             \* "idle" | "loop" | "returned" | "raised": convert_cmd_args_list
    game_name, game_args, mpc_party, server_ips,   \* its arguments
    i,              \* loop variable
    cmd_args_list,  \* local accumulator
    binary_name,    \* local
    calls,          \* history: the calls of mpc_game_svc.build_onedocker_args, in order
    err,            \* error convert_cmd_args_list raised, or None
    ret             \* <<binary_name, cmd_args_list>> once returned, else <<>>

initVars == <<init_pc, init_args, init_err, self>>
mapVars == <<map_pc, map_role, map_ret, map_err>>
callVars == <<game_name, game_args, mpc_party, server_ips>>
convVars == <<pc, i, cmd_args_list, binary_name, calls, err, ret>>
vars == <<initVars, mapVars, callVars, convVars>>

NoSelf == [container_svc |-> None, task_definition |-> None,
           mpc_game_svc |-> None, onedocker_svc |-> <<>>]

\* ------------------------------------------------------- MPCService.__init__
\* OneDockerService(self.container_svc, self.task_definition): the launcher
\* component receives both values as given.
OneDockerService(container_svc, task_definition) == <<container_svc, task_definition>>

DependencyMissing_onlyContainer(container_svc, mpc_game_svc) == container_svc = None

\* if container_svc is None or mpc_game_svc is None
DependencyMissing(container_svc, mpc_game_svc) ==
    container_svc = None \/ mpc_game_svc = None

MPCService_init ==
    /\ init_pc = "new"
    /\ \E c \in ContainerSvcInputs, t \in TaskDefinitionInputs, g \in MpcGameSvcInputs :
        /\ init_args' = <<c, t, g>>
        /\ IF DependencyMissing(c, g)
           THEN /\ init_pc' = "raised"
                /\ init_err' = DependencyMissingError
                /\ self' = NoSelf
           ELSE /\ init_pc' = "ok"
                /\ init_err' = None
                /\ self' = [container_svc |-> c, task_definition |-> t,
                            mpc_game_svc |-> g,
                            onedocker_svc |-> OneDockerService(c, t)]
    /\ UNCHANGED <<mapVars, callVars, convVars>>

\* ------------------------------------ map_private_computation_role_to_mpc_party
map_role_swapped(role) ==
    IF role = PUBLISHER THEN [raised |-> FALSE, value |-> CLIENT]
    ELSE IF role = PARTNER THEN [raised |-> FALSE, value |-> SERVER]
    ELSE [raised |-> TRUE, value |-> NoMpcPartyError]

map_private_computation_role_to_mpc_party(role) ==
    IF role = PUBLISHER THEN [raised |-> FALSE, value |-> SERVER]
    ELSE IF role = PARTNER THEN [raised |-> FALSE, value |-> CLIENT]
    ELSE [raised |-> TRUE, value |-> NoMpcPartyError]

MapRole ==
    /\ pc = "idle"
    /\ \E role \in RoleInputs :
        LET r == map_private_computation_role_to_mpc_party(role) IN
        /\ map_role' = role
        /\ map_pc' = IF r.raised THEN "raised" ELSE "returned"
        /\ map_ret' = IF r.raised THEN None ELSE r.value
        /\ map_err' = IF r.raised THEN r.value ELSE None
    /\ UNCHANGED <<initVars, callVars, convVars>>

\* ------------------------------------------ MPCService.convert_cmd_args_list
GameArgsMissing_onlyNone(ga) == ga.isNone

\* if not game_args
GameArgsMissing(ga) == Falsy(ga)

ServerIpsMissing_wrongParty(party, ips) == party = SERVER /\ Falsy(ips)

ServerIpsMissing_onlyNone(party, ips) == party = CLIENT /\ ips.isNone

\* if mpc_party is MPCParty.CLIENT and not server_ips
ServerIpsMissing(party, ips) == party = CLIENT /\ Falsy(ips)

\* server_ips[i] raises IndexError when server_ips is a list with no index i
IndexOutOfRange(ips, k) == ~ips.isNone /\ k >= Len(ips.list)

ServerIpAt_clientOnly(ips, k) ==
    IF ~ips.isNone /\ mpc_party = CLIENT THEN ips.list[k + 1] ELSE None

\* server_ip = server_ips[i] if server_ips is not None else None
ServerIpAt(ips, k) == IF ~ips.isNone THEN ips.list[k + 1] ELSE None

\* self.mpc_game_svc.build_onedocker_args(game_name=, mpc_party=, server_ip=,
\* **game_arg): the outcomes of the external resolver. It returns a package
\* name and a command built from its inputs, or raises a schema error.
build_onedocker_args(name, party, ip, arg) ==
    {[raised |-> FALSE, package_name |-> p, cmd_args |-> <<name, party, ip, arg>>,
      error |-> None] : p \in Packages}
    \cup
    {[raised |-> TRUE, package_name |-> None, cmd_args |-> <<>>, error |-> e]
        : e \in ResolverErrors}

NextBinaryName_lastWins(current, package_name) == package_name

\* if binary_name is None: binary_name = package_name
NextBinaryName(current, package_name) ==
    IF current = None THEN package_name ELSE current

AppendCmd_prepend(list, cmd_args) == <<cmd_args>> \o list

\* cmd_args_list.append(cmd_args)
AppendCmd(list, cmd_args) == Append(list, cmd_args)

\* Lines 126-132: argument validation and the locals' initial values.
convert_cmd_args_list_enter ==
    /\ init_pc = "ok"
    /\ pc = "idle"
    /\ \E n \in GameNames, ga \in OptLists(GameArgMaps), p \in MPCParty,
          ips \in OptLists(Ips) :
        /\ game_name' = n
        /\ game_args' = ga
        /\ mpc_party' = p
        /\ server_ips' = ips
        /\ IF GameArgsMissing(ga)
           THEN pc' = "raised" /\ err' = MissingGameArgsError
           ELSE IF ServerIpsMissing(p, ips)
           THEN pc' = "raised" /\ err' = MissingServerIpsError
           ELSE pc' = "loop" /\ err' = None
    /\ i' = 0
    /\ cmd_args_list' = <<>>
    /\ binary_name' = None
    /\ UNCHANGED <<calls, ret, initVars, mapVars>>

ResolverRaised_swallow(e) ==
    /\ i' = i + 1
    /\ UNCHANGED <<pc, err, cmd_args_list, binary_name, ret>>

\* An exception of build_onedocker_args is not caught: it leaves the function.
ResolverRaised(e) ==
    /\ pc' = "raised"
    /\ err' = e
    /\ UNCHANGED <<i, cmd_args_list, binary_name, ret>>

\* Lines 133-145: one iteration of the loop.
convert_cmd_args_list_loop ==
    /\ pc = "loop"
    /\ i < Len(game_args.list)
    /\ IF IndexOutOfRange(server_ips, i)
       THEN /\ pc' = "raised"
            /\ err' = IndexError
            /\ UNCHANGED <<i, cmd_args_list, binary_name, calls, ret>>
       ELSE LET game_arg == game_args.list[i + 1]
                server_ip == ServerIpAt(server_ips, i)
            IN \E out \in build_onedocker_args(game_name, mpc_party, server_ip, game_arg) :
                /\ calls' = Append(calls, [i |-> i, game_name |-> game_name,
                                           mpc_party |-> mpc_party,
                                           server_ip |-> server_ip,
                                           game_arg |-> game_arg, out |-> out])
                /\ IF out.raised
                   THEN ResolverRaised(out.error)
                   ELSE /\ binary_name' = NextBinaryName(binary_name, out.package_name)
                        /\ cmd_args_list' = AppendCmd(cmd_args_list, out.cmd_args)
                        /\ i' = i + 1
                        /\ UNCHANGED <<pc, err, ret>>
    /\ UNCHANGED <<callVars, initVars, mapVars>>

\* Lines 147-150: after the loop.
convert_cmd_args_list_return ==
    /\ pc = "loop"
    /\ i = Len(game_args.list)
    /\ IF binary_name = None
       THEN pc' = "raised" /\ err' = NoBinaryNameError /\ UNCHANGED ret
       ELSE pc' = "returned" /\ ret' = <<binary_name, cmd_args_list>> /\ UNCHANGED err
    /\ UNCHANGED <<i, cmd_args_list, binary_name, calls, callVars, initVars, mapVars>>

\* ------------------------------------------------------------ specification
Init ==
    /\ init_pc = "new" /\ init_args = <<>> /\ init_err = None /\ self = NoSelf
    /\ map_pc = "idle" /\ map_role = None /\ map_ret = None /\ map_err = None
    /\ pc = "idle"
    /\ game_name = None /\ game_args = NoneList /\ mpc_party = None
    /\ server_ips = NoneList
    /\ i = 0 /\ cmd_args_list = <<>> /\ binary_name = None
    /\ calls = <<>> /\ err = None /\ ret = <<>>

Next ==
    \/ MPCService_init
    \/ MapRole
    \/ convert_cmd_args_list_enter
    \/ convert_cmd_args_list_loop
    \/ convert_cmd_args_list_return

Spec == Init /\ [][Next]_vars

\* ------------------------------------------------------------------ claims
N == Len(game_args.list)
Entered == pc # "idle"
OkCalls == {k \in 1..Len(calls) : ~calls[k].out.raised}

\* C1: a returned result has exactly N = len(game_args) commands, and for
\* every position k the k-th command is the command the resolver returned for
\* the k-th element of game_args; while the loop runs the accumulator holds
\* the commands of the containers resolved so far, in input order.
C1_CommandsInInputOrder ==
    /\ (pc \in {"loop", "returned"}) =>
        /\ Len(cmd_args_list) = Len(calls)
        /\ Len(cmd_args_list) = i
        /\ \A k \in 1..Len(cmd_args_list) :
            /\ calls[k].game_arg = game_args.list[k]
            /\ ~calls[k].out.raised
            /\ cmd_args_list[k] = calls[k].out.cmd_args
    /\ pc = "returned" =>
        /\ Len(ret[2]) = N
        /\ \A k \in 1..N :
            /\ calls[k].game_arg = game_args.list[k]
            /\ ret[2][k] = calls[k].out.cmd_args

C1_Witness ==
    /\ pc = "returned"
    /\ N = MaxLen
    /\ game_args.list[1] # game_args.list[2]
    /\ ret[2][1] # ret[2][2]

\* C2: binary_name is the package name the resolver returned for container
\* index 0, from the moment that call returned and for the rest of the call;
\* a different package name returned for a later container does not change it
\* and does not make the call fail.
C2_BinaryNameIsFirstPackage ==
    /\ (OkCalls = {}) => binary_name = None
    /\ (OkCalls # {}) => binary_name = calls[1].out.package_name
    /\ pc = "returned" => ret[1] = calls[1].out.package_name
    /\ err # NoBinaryNameError
    /\ (pc = "raised" /\ calls # <<>> /\ ~calls[Len(calls)].out.raised) =>
            err = IndexError

C2_Witness ==
    /\ pc = "returned"
    /\ N >= 2
    /\ calls[2].out.package_name # calls[1].out.package_name
    /\ ret[1] = calls[1].out.package_name

\* C3: a call with an empty game_args fails with the missing-game_args error
\* for every party and every server_ips (absent, empty, non-empty), and the
\* resolver is never invoked.
C3_EmptyGameArgsRejected ==
    (Entered /\ ~game_args.isNone /\ N = 0) =>
        /\ pc = "raised"
        /\ err = MissingGameArgsError
        /\ calls = <<>>
        /\ ret = <<>>

C3_Witness ==
    /\ Entered /\ ~game_args.isNone /\ N = 0
    /\ mpc_party = CLIENT
    /\ ~server_ips.isNone /\ Len(server_ips.list) = 2
    /\ err = MissingGameArgsError

\* C4: with a non-empty game_args, party Client and server_ips absent the call
\* fails with the missing-server_ips error before any resolver invocation;
\* with party Server and server_ips absent the validation rejects nothing.
C4_ClientNeedsServerIps ==
    /\ (Entered /\ ~Falsy(game_args) /\ mpc_party = CLIENT /\ server_ips.isNone) =>
        /\ pc = "raised"
        /\ err = MissingServerIpsError
        /\ calls = <<>>
        /\ ret = <<>>
    /\ (Entered /\ ~Falsy(game_args) /\ mpc_party = SERVER /\ server_ips.isNone) =>
        /\ err \notin {MissingGameArgsError, MissingServerIpsError, IndexError}
        /\ (pc = "raised" => (calls # <<>> /\ calls[Len(calls)].out.raised))

C4_Witness ==
    /\ Entered /\ ~Falsy(game_args) /\ mpc_party = CLIENT /\ server_ips.isNone
    /\ err = MissingServerIpsError

\* C5: the k-th resolver invocation is the one of container index k - 1 and
\* receives (game_name, party, address, game_args[k - 1]), the address being
\* server_ips[k - 1] when server_ips is present (either party) and none when
\* it is absent; a returned call invoked the resolver once per container.
C5_AddressPairedByPosition ==
    /\ Len(calls) <= N
    /\ \A k \in 1..Len(calls) :
        /\ calls[k].i = k - 1
        /\ calls[k].game_name = game_name
        /\ calls[k].mpc_party = mpc_party
        /\ calls[k].game_arg = game_args.list[k]
        /\ IF server_ips.isNone
           THEN calls[k].server_ip = None
           ELSE /\ k <= Len(server_ips.list)
                /\ calls[k].server_ip = server_ips.list[k]
    /\ pc = "returned" => Len(calls) = N

C5_Witness ==
    /\ pc = "returned"
    /\ mpc_party = SERVER
    /\ N = 2
    /\ ~server_ips.isNone /\ Len(server_ips.list) = 2
    /\ server_ips.list[1] # server_ips.list[2]
    /\ calls[2].server_ip = server_ips.list[2]

\* C6: once the resolver raised for container k, the call has ended with that
\* same error, has returned no result, and the resolver is invoked for no
\* later container.
C6_FailFast ==
    \A k \in 1..Len(calls) :
        calls[k].out.raised =>
            /\ pc = "raised"
            /\ err = calls[k].out.error
            /\ ret = <<>>
            /\ k = Len(calls)

C6_Witness ==
    /\ pc = "raised"
    /\ N = MaxLen
    /\ Len(calls) = 2
    /\ calls[2].out.raised
    /\ err = calls[2].out.error

\* C7: with party Client and a present server_ips shorter than game_args the
\* call fails before any resolver invocation, never raises an index error
\* after containers were resolved, and never returns.
C7_ShortServerIpsFailFast ==
    (Entered /\ mpc_party = CLIENT /\ ~server_ips.isNone /\ ~game_args.isNone
        /\ Len(server_ips.list) < N) =>
            /\ calls = <<>>
            /\ err # IndexError
            /\ pc # "returned"

\* C8: the role mapper returns Server for Publisher and Client for Partner,
\* and for any other input raises the no-party error and returns no party.
C8_RoleMapper ==
    /\ (map_pc # "idle" /\ map_role = PUBLISHER) =>
            (map_pc = "returned" /\ map_ret = SERVER /\ map_err = None)
    /\ (map_pc # "idle" /\ map_role = PARTNER) =>
            (map_pc = "returned" /\ map_ret = CLIENT /\ map_err = None)
    /\ (map_pc # "idle" /\ map_role \notin {PUBLISHER, PARTNER}) =>
            (map_pc = "raised" /\ map_ret = None /\ map_err = NoMpcPartyError)

C8_Witness ==
    /\ map_pc = "returned" /\ map_role = PARTNER /\ map_ret = CLIENT

\* C9 (as stated): construction fails with the dependency error when the
\* container service or the task definition is absent.
C9_TaskDefinitionValidated ==
    (init_pc # "new" /\ (init_args[1] = None \/ init_args[2] = None)) =>
        (init_pc = "raised" /\ init_err = DependencyMissingError /\ self = NoSelf)

\* C9 (amended): construction fails with the dependency error exactly when the
\* container service or the game-argument resolver is absent, and then no
\* service exists and convert_cmd_args_list cannot be called; the task
\* definition is not validated: absent or not, it is stored and handed to the
\* launcher component unchanged.
C9_DependenciesValidated ==
    /\ (init_pc # "new" /\ (init_args[1] = None \/ init_args[3] = None)) =>
        /\ init_pc = "raised"
        /\ init_err = DependencyMissingError
        /\ self = NoSelf
        /\ pc = "idle"
    /\ (init_pc # "new" /\ init_args[1] # None /\ init_args[3] # None) =>
        /\ init_pc = "ok"
        /\ init_err = None
        /\ self.container_svc = init_args[1]
        /\ self.task_definition = init_args[2]
        /\ self.mpc_game_svc = init_args[3]
        /\ self.onedocker_svc = <<init_args[1], init_args[2]>>

C9_Witness ==
    /\ init_pc = "raised"
    /\ init_args[1] # None /\ init_args[2] # None /\ init_args[3] = None

\* C10: for party Client and a non-empty game_args the call fails with the
\* missing-server_ips error exactly when server_ips is absent or empty; an
\* empty list is rejected before any resolver invocation.
C10_EmptyServerIpsRejected ==
    (Entered /\ ~Falsy(game_args) /\ mpc_party = CLIENT) =>
        /\ (err = MissingServerIpsError) <=> Falsy(server_ips)
        /\ (~server_ips.isNone /\ Len(server_ips.list) = 0) =>
                (pc = "raised" /\ calls = <<>> /\ ret = <<>>)

C10_Witness ==
    /\ Entered /\ ~Falsy(game_args) /\ mpc_party = CLIENT
    /\ ~server_ips.isNone /\ Len(server_ips.list) = 0
    /\ err = MissingServerIpsError

====
